---- MODULE Spec2Model ----
(***************************************************************************)
(* Model of soroban-sdk/src/crypto/bn254.rs: the BN254 facade `Bn254`, the *)
(* point wrappers G1Affine / G2Affine / Fp / Fp2 and the scalar `Fr`.      *)
(*                                                                         *)
(* The facade is stateless.  Every operation marshals its operands, makes  *)
(* one call into the host environment (internal::Env, bn254_...) and wraps *)
(* what the host returns.  The host is not part of this crate: each host   *)
(* call is a nondeterministic choice between a fault (the call never       *)
(* returns to the facade) and a value of the call's return type.           *)
(*                                                                         *)
(* The state records the last facade operation: its name, its operands,    *)
(* its outcome and the host calls it made, together with the set of points *)
(* for which a host subgroup check has answered true.                      *)
(***************************************************************************)
EXTENDS Integers, Sequences, FiniteSets, TLC

VARIABLES op, args, result, calls, verified

vars == <<op, args, result, calls, verified>>

----------------------------------------------------------------------------
(* Serialization sizes                                                     *)

FP_SERIALIZED_SIZE == 32

FP2_SERIALIZED_SIZE == FP_SERIALIZED_SIZE * 2

\* mutant: the width of one coordinate instead of X || Y
G1_SERIALIZED_SIZE_one_coordinate == FP_SERIALIZED_SIZE

G1_SERIALIZED_SIZE == FP_SERIALIZED_SIZE * 2

G2_SERIALIZED_SIZE == FP2_SERIALIZED_SIZE * 2

----------------------------------------------------------------------------
(* Bounds and input pools                                                  *)

MaxVecLen == 2

MaxExp == 2

BufLens == {0, 1, 31, 32, 33, 63, 64, 65, 96, 127, 128, 129}

Patterns == {"zero", "ff", "ramp"}

PatByte(pat, i) ==
    CASE pat = "zero" -> 0
      [] pat = "ff"   -> 255
      [] pat = "ramp" -> i % 256

Fill(n, pat) == [i \in 1..n |-> PatByte(pat, i)]

\* X = 1, Y = 2: the generator of G1, big-endian
G1Gen == [i \in 1..64 |-> IF i = 32 THEN 1 ELSE IF i = 64 THEN 2 ELSE 0]

G1Pool == {G1Gen, Fill(64, "ff")}

G2Pool == {Fill(128, "zero"), Fill(128, "ramp")}

\* the scalar-field modulus r of BN254, big-endian
RBytes ==
    << 48, 100,  78, 114, 225,  49, 160,  41, 184,  80,  69, 182, 129, 129,  88,  93,
       40,  51, 232,  72, 121, 185, 112, 145,  67, 225, 245, 147, 240,   0,   0,   1 >>

RMinusOneBytes == [i \in 1..32 |-> IF i = 32 THEN 0 ELSE RBytes[i]]

OneBytes == [i \in 1..32 |-> IF i = 32 THEN 1 ELSE 0]

ScalarBytesPool ==
    {Fill(32, "zero"), OneBytes, RMinusOneBytes, RBytes, Fill(32, "ff"), Fill(32, "ramp")}

----------------------------------------------------------------------------
(* Values                                                                  *)

None == [kind |-> "none"]

Bool(b) == [kind |-> "bool", b |-> b]

Bytes(b) == [kind |-> "Bytes", bytes |-> b]

U64(n) == [kind |-> "u64", n |-> n]

VecOf(items) == [kind |-> "Vec", items |-> items]

Ok(v) == [tag |-> "ok", val |-> v]

Err(e) == [tag |-> e, val |-> None]

Fault == Err("fault")

----------------------------------------------------------------------------
(* BytesN<N> and the wrappers generated by impl_bytesn_repr!               *)

\* BytesN<N> from a byte buffer: the only structural check there is
BytesN_try_from(buf, n) ==
    IF Len(buf) = n THEN Ok([kind |-> "BytesN", bytes |-> buf])
                    ELSE Err("InvalidLength")

\* BytesN::unchecked_new wraps a host bytes object without looking at it
BytesN_unchecked_new(obj) == [kind |-> "BytesN", bytes |-> obj]

ReprTypes == {"G1Affine", "G2Affine", "Fp", "Fp2"}

\* impl_bytesn_repr!(T, SIZE): the width each wrapper is declared with
ReprSize(T) ==
    CASE T = "G1Affine" -> G1_SERIALIZED_SIZE
      [] T = "G2Affine" -> G2_SERIALIZED_SIZE
      [] T = "Fp"       -> FP_SERIALIZED_SIZE
      [] T = "Fp2"      -> FP2_SERIALIZED_SIZE

\* T::from_bytes(BytesN<SIZE>) -> T: the tuple struct around the BytesN
from_bytes(T, bytesn) == [kind |-> T, f0 |-> bytesn]

\* T::to_bytes(&self) -> BytesN<SIZE>
to_bytes(e) == e.f0

\* T::to_object(&self) -> BytesObject, modelled by the bytes it refers to
to_object(e) == e.f0.bytes

\* a wrapper built from a caller's byte buffer
FromBuffer(T, buf) ==
    LET bn == BytesN_try_from(buf, ReprSize(T))
    IN  IF bn.tag = "ok" THEN Ok(from_bytes(T, bn.val)) ELSE bn

----------------------------------------------------------------------------
(* U256 and Fr                                                             *)

\* a U256 is held as 16 big-endian limbs of 16 bits
U256_from_be_bytes(bytes) ==
    [kind |-> "U256", limbs |-> [i \in 1..16 |-> bytes[2 * i - 1] * 256 + bytes[2 * i]]]

U256_to_be_bytes(u) ==
    [i \in 1..32 |-> IF i % 2 = 1 THEN u.limbs[(i + 1) \div 2] \div 256
                                  ELSE u.limbs[i \div 2] % 256]

U256_try_from_val(val) ==
    IF val.kind = "U256" THEN Ok(val) ELSE Err("ConversionError")

\* impl From<U256> for Fr
Fr_from(value) == [kind |-> "Fr", f0 |-> value]

Fr_from_u256(value) == Fr_from(value)

Fr_as_u256(fr) == fr.f0

Fr_from_bytes(bytes) == Fr_from(U256_from_be_bytes(bytes.bytes))

\* mutant: the limbs written out least significant byte first
Fr_to_bytes_le(fr) ==
    LET be == U256_to_be_bytes(Fr_as_u256(fr))
        bn == BytesN_try_from([i \in 1..32 |-> be[33 - i]], 32)
    IN  IF bn.tag = "ok" THEN bn ELSE Fault

\* to_be_bytes().try_into().unwrap_optimized()
Fr_to_bytes(fr) ==
    LET bn == BytesN_try_from(U256_to_be_bytes(Fr_as_u256(fr)), 32)
    IN  IF bn.tag = "ok" THEN bn ELSE Fault

\* impl From<&Fr> for U256Val
Fr_into_U256Val(fr) == Fr_as_u256(fr)

\* impl TryFromVal<Env, Val> for Fr
Fr_try_from_val(val) ==
    LET u == U256_try_from_val(val)
    IN  IF u.tag = "ok" THEN Ok(Fr_from(u.val)) ELSE u

----------------------------------------------------------------------------
(* Host calls.  A host call either faults, and then the facade operation   *)
(* never returns (the Env error type is Infallible), or yields a value of  *)
(* the return type of the host function.                                   *)

HostCall(fn, a, ret) == [fn |-> fn, args |-> a, ret |-> ret]

HostBool == {Fault, Ok(Bool(TRUE)), Ok(Bool(FALSE))}

HostG1 == {Fault} \cup {Ok(Bytes(b)) : b \in G1Pool}

HostG2 == {Fault} \cup {Ok(Bytes(b)) : b \in G2Pool}

\* the U256Val results handed back by the scalar-field host functions
HostFr ==
    {Fault} \cup
    {Ok(U256_from_be_bytes(b)) : b \in {Fill(32, "zero"), OneBytes, RMinusOneBytes}}

CheckFns == {"bn254_check_g1_is_in_subgroup", "bn254_check_g2_is_in_subgroup"}

----------------------------------------------------------------------------
(* impl Fr: pow, inv                                                       *)

Fr_pow(self, rhs, h) ==
    [calls |-> <<HostCall("bn254_fr_pow", <<Fr_into_U256Val(self), U64(rhs)>>, h)>>,
     out   |-> IF h.tag = "ok" THEN Ok(Fr_from(h.val)) ELSE Fault]

Fr_inv(self, h) ==
    [calls |-> <<HostCall("bn254_fr_inv", <<Fr_into_U256Val(self)>>, h)>>,
     out   |-> IF h.tag = "ok" THEN Ok(Fr_from(h.val)) ELSE Fault]

----------------------------------------------------------------------------
(* impl Bn254                                                              *)

g1_is_in_subgroup(p, h) ==
    [calls |-> <<HostCall("bn254_check_g1_is_in_subgroup", <<to_object(p)>>, h)>>,
     out   |-> IF h.tag = "ok" THEN Ok(h.val) ELSE Fault]

\* mutant: g1_add validating its first operand before adding
g1_add_checking(p0, p1, h) ==
    [calls |-> <<HostCall("bn254_check_g1_is_in_subgroup", <<to_object(p0)>>, Ok(Bool(TRUE))),
                 HostCall("bn254_g1_add", <<to_object(p0), to_object(p1)>>, h)>>,
     out   |-> IF h.tag = "ok"
               THEN Ok(from_bytes("G1Affine", BytesN_unchecked_new(h.val.bytes)))
               ELSE Fault]

g1_add(p0, p1, h) ==
    [calls |-> <<HostCall("bn254_g1_add", <<to_object(p0), to_object(p1)>>, h)>>,
     out   |-> IF h.tag = "ok"
               THEN Ok(from_bytes("G1Affine", BytesN_unchecked_new(h.val.bytes)))
               ELSE Fault]

g1_mul(p0, scalar, h) ==
    [calls |-> <<HostCall("bn254_g1_mul", <<to_object(p0), Fr_into_U256Val(scalar)>>, h)>>,
     out   |-> IF h.tag = "ok"
               THEN Ok(from_bytes("G1Affine", BytesN_unchecked_new(h.val.bytes)))
               ELSE Fault]

g2_is_in_subgroup(p, h) ==
    [calls |-> <<HostCall("bn254_check_g2_is_in_subgroup", <<to_object(p)>>, h)>>,
     out   |-> IF h.tag = "ok" THEN Ok(h.val) ELSE Fault]

g2_add(p0, p1, h) ==
    [calls |-> <<HostCall("bn254_g2_add", <<to_object(p0), to_object(p1)>>, h)>>,
     out   |-> IF h.tag = "ok"
               THEN Ok(from_bytes("G2Affine", BytesN_unchecked_new(h.val.bytes)))
               ELSE Fault]

g2_mul(p0, scalar, h) ==
    [calls |-> <<HostCall("bn254_g2_mul", <<to_object(p0), Fr_into_U256Val(scalar)>>, h)>>,
     out   |-> IF h.tag = "ok"
               THEN Ok(from_bytes("G2Affine", BytesN_unchecked_new(h.val.bytes)))
               ELSE Fault]

pairing_check(vp1, vp2, h) ==
    [calls |-> <<HostCall("bn254_multi_pairing_check",
                          <<[i \in DOMAIN vp1 |-> to_object(vp1[i])],
                            [i \in DOMAIN vp2 |-> to_object(vp2[i])]>>, h)>>,
     out   |-> IF h.tag = "ok" THEN Ok(h.val) ELSE Fault]

fr_add(lhs, rhs, h) ==
    [calls |-> <<HostCall("bn254_fr_add", <<Fr_into_U256Val(lhs), Fr_into_U256Val(rhs)>>, h)>>,
     out   |-> IF h.tag = "ok" THEN Ok(Fr_from(h.val)) ELSE Fault]

fr_sub(lhs, rhs, h) ==
    [calls |-> <<HostCall("bn254_fr_sub", <<Fr_into_U256Val(lhs), Fr_into_U256Val(rhs)>>, h)>>,
     out   |-> IF h.tag = "ok" THEN Ok(Fr_from(h.val)) ELSE Fault]

fr_mul(lhs, rhs, h) ==
    [calls |-> <<HostCall("bn254_fr_mul", <<Fr_into_U256Val(lhs), Fr_into_U256Val(rhs)>>, h)>>,
     out   |-> IF h.tag = "ok" THEN Ok(Fr_from(h.val)) ELSE Fault]

----------------------------------------------------------------------------
(* Trust state: a point is Verified once a host subgroup check on its      *)
(* bytes has answered true, and Decoded until then.                        *)

Promote(v, cs) ==
    v \cup {cs[i].args[1] : i \in {j \in DOMAIN cs :
                                     cs[j].fn \in CheckFns /\ cs[j].ret = Ok(Bool(TRUE))}}

----------------------------------------------------------------------------
(* Operands the caller can hold                                            *)

G1Points == {from_bytes("G1Affine", BytesN_unchecked_new(b)) : b \in G1Pool}

G2Points == {from_bytes("G2Affine", BytesN_unchecked_new(b)) : b \in G2Pool}

Scalars == {Fr_from_bytes(BytesN_unchecked_new(b)) :
              b \in {Fill(32, "zero"), OneBytes, Fill(32, "ff")}}

U256Values == {U256_from_be_bytes(b) : b \in ScalarBytesPool}

Vals == U256Values \cup {[kind |-> "Void"]}

VecsOf(S) == {[i \in 1..n |-> p] : n \in 0..MaxVecLen, p \in S}

----------------------------------------------------------------------------
(* The state machine                                                       *)

Init ==
    /\ op = "new"
    /\ args = <<>>
    /\ result = Ok(None)
    /\ calls = <<>>
    /\ verified = {}

\* an operation that makes no bn254 host call
Pure(a, out) ==
    /\ args' = a
    /\ result' = out
    /\ calls' = <<>>
    /\ verified' = verified

\* a facade operation r = [calls, out]
Facade(a, r) ==
    /\ args' = a
    /\ result' = r.out
    /\ calls' = r.calls
    /\ verified' = Promote(verified, r.calls)

ConstructFromBuffer ==
    \E T \in ReprTypes, n \in BufLens, pat \in Patterns :
        /\ op' = T
        /\ Pure(<<Bytes(Fill(n, pat))>>, FromBuffer(T, Fill(n, pat)))

FrFromBytes ==
    \E b \in ScalarBytesPool :
        /\ op' = "Fr::from_bytes"
        /\ Pure(<<BytesN_unchecked_new(b)>>, Ok(Fr_from_bytes(BytesN_unchecked_new(b))))

FrFromU256 ==
    \E u \in U256Values :
        /\ op' = "Fr::from_u256"
        /\ Pure(<<u>>, Ok(Fr_from_u256(u)))

FrTryFromVal ==
    \E v \in Vals :
        /\ op' = "Fr::try_from_val"
        /\ Pure(<<v>>, Fr_try_from_val(v))

FrToBytes ==
    /\ result.tag = "ok"
    /\ result.val.kind = "Fr"
    /\ op' = "Fr::to_bytes"
    /\ Pure(<<result.val>>, Fr_to_bytes(result.val))

ToBytes ==
    /\ result.tag = "ok"
    /\ result.val.kind \in ReprTypes
    /\ op' = "to_bytes"
    /\ Pure(<<result.val>>, Ok(to_bytes(result.val)))

FrPow ==
    \E x \in Scalars, n \in 0..MaxExp, h \in HostFr :
        /\ op' = "Fr::pow"
        /\ Facade(<<x, U64(n)>>, Fr_pow(x, n, h))

FrInv ==
    \E x \in Scalars, h \in HostFr :
        /\ op' = "Fr::inv"
        /\ Facade(<<x>>, Fr_inv(x, h))

G1IsInSubgroup ==
    \E p \in G1Points, h \in HostBool :
        /\ op' = "g1_is_in_subgroup"
        /\ Facade(<<p>>, g1_is_in_subgroup(p, h))

G1Add ==
    \E p0 \in G1Points, p1 \in G1Points, h \in HostG1 :
        /\ op' = "g1_add"
        /\ Facade(<<p0, p1>>, g1_add(p0, p1, h))

G1Mul ==
    \E p0 \in G1Points, s \in Scalars, h \in HostG1 :
        /\ op' = "g1_mul"
        /\ Facade(<<p0, s>>, g1_mul(p0, s, h))

G2IsInSubgroup ==
    \E p \in G2Points, h \in HostBool :
        /\ op' = "g2_is_in_subgroup"
        /\ Facade(<<p>>, g2_is_in_subgroup(p, h))

G2Add ==
    \E p0 \in G2Points, p1 \in G2Points, h \in HostG2 :
        /\ op' = "g2_add"
        /\ Facade(<<p0, p1>>, g2_add(p0, p1, h))

G2Mul ==
    \E p0 \in G2Points, s \in Scalars, h \in HostG2 :
        /\ op' = "g2_mul"
        /\ Facade(<<p0, s>>, g2_mul(p0, s, h))

PairingCheck ==
    \E vp1 \in VecsOf(G1Points), vp2 \in VecsOf(G2Points), h \in HostBool :
        /\ op' = "pairing_check"
        /\ Facade(<<VecOf(vp1), VecOf(vp2)>>, pairing_check(vp1, vp2, h))

FrAdd ==
    \E a \in Scalars, b \in Scalars, h \in HostFr :
        /\ op' = "fr_add"
        /\ Facade(<<a, b>>, fr_add(a, b, h))

FrSub ==
    \E a \in Scalars, b \in Scalars, h \in HostFr :
        /\ op' = "fr_sub"
        /\ Facade(<<a, b>>, fr_sub(a, b, h))

FrMul ==
    \E a \in Scalars, b \in Scalars, h \in HostFr :
        /\ op' = "fr_mul"
        /\ Facade(<<a, b>>, fr_mul(a, b, h))

Next ==
    \/ ConstructFromBuffer
    \/ FrFromBytes
    \/ FrFromU256
    \/ FrTryFromVal
    \/ FrToBytes
    \/ ToBytes
    \/ FrPow
    \/ FrInv
    \/ G1IsInSubgroup
    \/ G1Add
    \/ G1Mul
    \/ G2IsInSubgroup
    \/ G2Add
    \/ G2Mul
    \/ PairingCheck
    \/ FrAdd
    \/ FrSub
    \/ FrMul

Spec == Init /\ [][Next]_vars

----------------------------------------------------------------------------
(* Properties                                                              *)

IsInSubgroupOps == {"g1_is_in_subgroup", "g2_is_in_subgroup"}

BytesLt(a, b) ==
    \E i \in 1..Len(b) : a[i] < b[i] /\ \A j \in 1..(i - 1) : a[j] = b[j]

\* C3: a point becomes Verified only through a g1_is_in_subgroup /
\* g2_is_in_subgroup call on that very point that returns true; construction,
\* g1_add, g1_mul, g2_add, g2_mul and pairing_check promote nothing and make no
\* subgroup-check host call of their own.
C3_NoAutoPromotion ==
    [][ /\ verified' # verified =>
              /\ op' \in IsInSubgroupOps
              /\ result' = Ok(Bool(TRUE))
              /\ verified' = verified \cup {to_object(args'[1])}
        /\ op' \notin IsInSubgroupOps =>
              \A i \in DOMAIN calls' : calls'[i].fn \notin CheckFns ]_vars

\* g1_add has returned a point for a Decoded operand while other points are
\* already Verified: operand and sum are still Decoded.
C3_Witness ==
    /\ op = "g1_add"
    /\ result.tag = "ok"
    /\ verified # {}
    /\ to_object(args[1]) \notin verified
    /\ to_object(result.val) \notin verified

\* C4: building a G1Affine (G2Affine) from a byte buffer fails with
\* InvalidLength exactly when the buffer is not 64 (128) bytes long, and a
\* buffer of that length is wrapped unchanged whatever bytes it holds.
C4_LengthOnly ==
    op \in {"G1Affine", "G2Affine"} =>
        LET want == IF op = "G1Affine" THEN 64 ELSE 128
            buf  == args[1].bytes
        IN  /\ (result.tag = "InvalidLength") <=> (Len(buf) # want)
            /\ Len(buf) = want =>
                  /\ result.tag = "ok"
                  /\ result.val.kind = op
                  /\ to_object(result.val) = buf

\* 64 bytes of 0xFF (both coordinates above p, not on the curve) are accepted
C4_Witness ==
    /\ op = "G1Affine"
    /\ args[1].bytes = Fill(64, "ff")
    /\ result.tag = "ok"

\* C6: from_bytes then to_bytes gives back the buffer bit for bit (32 bytes
\* for Fp and Fr, 64 for Fp2 and G1Affine, 128 for G2Affine), and to_bytes then
\* from_bytes gives back an equal entity.
C6_RoundTrip ==
    /\ (op \in ReprTypes /\ result.tag = "ok") =>
           /\ Len(args[1].bytes) = (CASE op = "Fp" -> 32 [] op = "Fp2" -> 64
                                      [] op = "G1Affine" -> 64 [] op = "G2Affine" -> 128)
           /\ to_bytes(result.val).bytes = args[1].bytes
    /\ op = "Fr::from_bytes" =>
           /\ Len(args[1].bytes) = 32
           /\ Fr_to_bytes(result.val) = Ok(args[1])
    /\ op = "to_bytes" => from_bytes(args[1].kind, result.val) = args[1]
    /\ op = "Fr::to_bytes" =>
           /\ result.tag = "ok"
           /\ Len(result.val.bytes) = 32
           /\ Fr_from_bytes(result.val) = args[1]

\* an Fr decoded from 01 02 .. 20, a buffer that differs from its reverse
C6_Witness ==
    /\ op = "Fr::from_bytes"
    /\ args[1].bytes = Fill(32, "ramp")
    /\ result.tag = "ok"

\* C10: every Fr the interface hands out holds a value below the modulus r
C10_FrBelowModulus ==
    (result.tag = "ok" /\ result.val.kind = "Fr") =>
        BytesLt(U256_to_be_bytes(Fr_as_u256(result.val)), RBytes)

====
